---------------------------- MODULE Spec2Model ----------------------------
(***************************************************************************)
(* The automated book writer: callGenerativeAIWithRetry (the retry wrapper *)
(* around model.generateContent) and writeBook / writeBookLogic (the five  *)
(* stage pipeline).  The repository holds two versions of the script:      *)
(*   src/index.js          retries only on status 429 / 503, saves the     *)
(*                         book to Redis after every paragraph;            *)
(*   src/unnamed/part_000  retries on any error, honours the server's      *)
(*                         RetryInfo delay, keeps paragraph_count and      *)
(*                         previous_paragraph, pauses 20 s per iteration.  *)
(* The variable `variant' says which of the two scripts is running.        *)
(*                                                                         *)
(* Texts are sequences of tokens.  A token is a piece of a JavaScript      *)
(* string: "END OF THE " (with its trailing blank), "CHAPTER", "BOOK",     *)
(* one blank, one newline, one double quote, one backslash, the letter n   *)
(* or one ordinary character "x".  The two markers are two tokens each,    *)
(* and an occurrence of a marker in the concatenated string always starts  *)
(* at a token boundary, so includes / replace on token sequences agree     *)
(* with String.prototype.includes / replace on the strings they spell.     *)
(***************************************************************************)
EXTENDS Integers, Sequences, FiniteSets, TLC

VARIABLES
    variant,            \* "index.js" or "part_000": the script that runs
    env,                \* process.env: GEMINI_API_KEY, KEYWORDS, CHAPTER_COUNT
    \* ---- callGenerativeAIWithRetry: parameters, locals, position
    wpc,                \* "idle" | "call" | "sleep" | "returned" | "threw"
    prompt,             \* the prompt argument of the running invocation
    retries,            \* parameter retries
    initialDelay,       \* parameter initialDelay (ms)
    attempt,            \* local attempt
    delay,              \* local delay: the argument of the pending sleep(delay)
    result,             \* what the invocation returned or threw
    \* ---- observation of one invocation (no effect on the program)
    calls,              \* model.generateContent calls of this invocation
    sleeps,             \* sleep(delay) calls of this invocation
    lastOutcome,        \* outcome of the latest model.generateContent call, once it has one
    \* ---- writeBook / writeBookLogic: locals and position
    pc,
    world, locations, characters, chapterOutline, summary,
    bookContent, currentChapter, bookComplete,
    paragraph_count, previous_paragraph,     \* part_000 only
    isChapterEnd, isBookEnd,                 \* locals of the running iteration
    redisValue,                              \* index.js: value stored under redisKey
    caught,                                  \* the error the catch block received
    \* ---- observation of the run (no effect on the program)
    iterations,         \* paragraphs received so far
    chapterEnds,        \* paragraphs received that contained "END OF THE CHAPTER"
    writtenInChapter    \* paragraphs received since the last chapter-end paragraph

wrapperVars == <<wpc, prompt, retries, initialDelay, attempt, delay, result,
                 calls, sleeps, lastOutcome>>
bookVars == <<world, locations, characters, chapterOutline, summary,
              bookContent, currentChapter, bookComplete,
              paragraph_count, previous_paragraph, isChapterEnd, isBookEnd,
              redisValue>>
ghostVars == <<iterations, chapterEnds, writtenInChapter>>
vars == <<variant, env, wrapperVars, pc, bookVars, caught, ghostVars>>

Variants == {"index.js", "part_000"}

(***************************************************************************)
(* Bounds of the model.                                                    *)
(***************************************************************************)
\* largest retries argument the wrapper harness tries (0 .. MaxRetries)
MaxRetries == 4
\* paragraphs the remote service may be asked for in one run
MaxParagraphs == 2
\* longest text handed to the marker clean-up on its own
MaxLen == 4

(***************************************************************************)
(* Program constants.                                                      *)
(***************************************************************************)
DefaultRetries == 10
DefaultInitialDelay == 1000

(***************************************************************************)
(* Strings.                                                                *)
(***************************************************************************)
EOT == "END OF THE "
Empty == <<>>
\* the JavaScript value undefined, where a string was expected
UNDEFINED == <<"#undefined">>

ChapterMarker == <<EOT, "CHAPTER">>
BookMarker == <<EOT, "BOOK">>

IsWhitespace(t) == t \in {" ", "\n"}

\* positions at which pattern m occurs in s
Occurrences(s, m) ==
    {i \in 1..(Len(s) - Len(m) + 1) : SubSeq(s, i, i + Len(m) - 1) = m}

\* String.prototype.includes
Includes(s, m) == Occurrences(s, m) # {}

Min(S) == CHOOSE i \in S : \A j \in S : i <= j
Max(a, b) == IF a >= b THEN a ELSE b

\* String.prototype.replace(m, "") with a string pattern: the first occurrence only
ReplaceFirst(s, m) ==
    IF Includes(s, m)
    THEN LET i == Min(Occurrences(s, m))
         IN  SubSeq(s, 1, i - 1) \o SubSeq(s, i + Len(m), Len(s))
    ELSE s

\* String.prototype.trim
Trim(s) ==
    LET keep == {i \in 1..Len(s) : ~IsWhitespace(s[i])}
    IN  IF keep = {} THEN Empty
        ELSE SubSeq(s, Min(keep), CHOOSE i \in keep : \A j \in keep : j <= i)

\* JSON.stringify of a string: quoted, with quote, backslash and newline escaped
RECURSIVE Escape(_)
Escape(s) ==
    IF s = Empty THEN Empty
    ELSE LET c == Head(s)
             e == CASE c = "\"" -> <<"\\", "\"">>
                    [] c = "\\" -> <<"\\", "\\">>
                    [] c = "\n" -> <<"\\", "n">>
                    [] OTHER    -> <<c>>
         IN  e \o Escape(Tail(s))

JSONStringify(v) ==
    IF v = UNDEFINED THEN UNDEFINED ELSE <<"\"">> \o Escape(v) \o <<"\"">>

(***************************************************************************)
(* Remote responses.  shape says where the candidates array sits:          *)
(*   "candidates"           response.candidates[0].content.parts[0].text   *)
(*   "response.candidates"  response.response.candidates[0]...  (the SDK)  *)
(*   "none"                 no candidates at all (a blocked generation)    *)
(* text is the text of parts[0], or UNDEFINED when the part has none.      *)
(***************************************************************************)
Response(shape, text) == [shape |-> shape, text |-> text]
NoCandidates == Response("none", UNDEFINED)

\* extractTextFromResponse of src/index.js
ExtractIndex(r) ==
    IF r.shape = "candidates" /\ r.text # UNDEFINED /\ r.text # Empty
    THEN r.text
    ELSE Empty

\* extractTextFromResponse of part_000: a TypeError on the path gives ""
ExtractLogic(r) ==
    IF r.shape = "response.candidates" THEN JSONStringify(r.text) ELSE Empty

extractTextFromResponse(v, r) ==
    IF v = "index.js" THEN ExtractIndex(r) ELSE ExtractLogic(r)

\* the marker clean-up of the loop
CleanUp(s) == Trim(ReplaceFirst(ReplaceFirst(s, ChapterMarker), BookMarker))

(***************************************************************************)
(* Remote errors.  status 0 stands for an error without a status (a        *)
(* network failure); retryDelay is the retryDelay string of the            *)
(* google.rpc.RetryInfo detail, Empty when the error carries none.         *)
(***************************************************************************)
RemoteError(status, retryDelay) ==
    [status |-> status, retryDelay |-> retryDelay, message |-> "remote"]
GenericError ==
    [status |-> 0, retryDelay |-> Empty,
     message |-> "Failed to get a response from the API after multiple retries."]
TypeError ==
    [status |-> 0, retryDelay |-> Empty, message |-> "TypeError"]
NoError == [status |-> 0, retryDelay |-> Empty, message |-> "none"]

Statuses == {0, 400, 429, 500, 502, 503, 504}
RunStatuses == {0, 400, 429, 500, 503}
RetryDelays == {<<"3", "s">>, <<"0", ".", "5", "s">>}

\* the errors model.generateContent may reject with, by the kind of prompt:
\* every status for the wrapper on its own, fewer inside a whole run
ErrorsFor(kind) ==
    {RemoteError(s, Empty) : s \in IF kind = "harness" THEN Statuses ELSE RunStatuses}
    \cup {RemoteError(429, d) : d \in RetryDelays}

\* the value NaN
NaN == -1

Digits == <<"0", "1", "2", "3", "4", "5", "6", "7", "8", "9">>
IsDigit(c) == \E d \in 1..10 : Digits[d] = c
DigitVal(c) == (CHOOSE d \in 1..10 : Digits[d] = c) - 1

\* length of the longest prefix of s made of digits
DigitPrefix(s) ==
    LET stops == {i \in 1..Len(s) : ~IsDigit(s[i])}
    IN  IF stops = {} THEN Len(s) ELSE Min(stops) - 1

RECURSIVE DecimalValue(_)
DecimalValue(s) ==
    IF s = Empty THEN 0
    ELSE 10 * DecimalValue(SubSeq(s, 1, Len(s) - 1)) + DigitVal(s[Len(s)])

\* parseFloat(s) * 1000 for an unsigned decimal numeral with at most three
\* decimals (parseFloat stops at the first character that fits no numeral)
ParseFloatTimes1000(s) ==
    LET n    == DigitPrefix(s)
        ip   == SubSeq(s, 1, n)
        rest == SubSeq(s, n + 1, Len(s))
        m    == IF rest # Empty /\ Head(rest) = "." THEN DigitPrefix(Tail(rest)) ELSE 0
        fp   == IF m > 0 THEN SubSeq(Tail(rest), 1, m) ELSE Empty
        f3   == SubSeq(fp \o <<"0", "0", "0">>, 1, 3)
    IN  IF n = 0 /\ m = 0 THEN NaN
        ELSE 1000 * DecimalValue(ip) + DecimalValue(f3)

\* Math.max
MathMax(a, b) == IF a = NaN \/ b = NaN THEN NaN ELSE Max(a, b)

RECURSIVE Pow2(_)
Pow2(k) == IF k = 0 THEN 1 ELSE 2 * Pow2(k - 1)


(***************************************************************************)
(* What the remote service may answer, by the kind of prompt.              *)
(***************************************************************************)
Shapes == {"candidates", "response.candidates"}
SetupTexts == {<<"x">>}
SummaryTexts == {<<"x">>}
ParagraphTexts ==
    { <<"x">>,
      <<"x", " ", EOT, "CHAPTER">>,
      <<"x", " ", EOT, "BOOK">>,
      <<EOT, "CHAPTER", " ", EOT, "BOOK">> }

ResponsesFor(kind) ==
    CASE kind = "paragraph" ->
            {Response(sh, t) : sh \in Shapes, t \in ParagraphTexts \cup {Empty, UNDEFINED}}
            \cup {NoCandidates}
      [] kind = "harness" ->
            {Response(sh, t) : sh \in Shapes, t \in SetupTexts \cup {Empty}}
            \cup {NoCandidates}
      [] kind = "summary" ->
            IF variant = "index.js"
            THEN {Response("candidates", t) : t \in SummaryTexts}
            ELSE {Response("response.candidates", t) : t \in SummaryTexts \cup {UNDEFINED}}
      [] OTHER ->
            {Response(sh, t) : sh \in Shapes, t \in SetupTexts} \cup {NoCandidates}

(***************************************************************************)
(* callGenerativeAIWithRetry.                                              *)
(***************************************************************************)
NoResult == [kind |-> "none", val |-> NoError]
Returned(r) == [kind |-> "response", val |-> r]
Threw(e) == [kind |-> "error", val |-> e]

\* ShouldRetry with the bound of the attempts off by one
ShouldRetryOffByOne(v, e, a, r) ==
    IF v = "index.js"
    THEN (e.status = 429 \/ e.status = 503) /\ a < r
    ELSE a < r

\* the condition of the catch block: retry (sleep, attempt++) or re-throw
ShouldRetry(v, e, a, r) ==
    IF v = "index.js"
    THEN (e.status = 429 \/ e.status = 503) /\ a < r - 1
    ELSE a < r - 1

\* the delay handed to sleep after the failure e of attempt a
BackoffDelay(v, e, a, d) ==
    LET backoff == d * Pow2(a)
    IN  IF v = "index.js" \/ e.retryDelay = Empty
        THEN backoff
        ELSE MathMax(backoff, ParseFloatTimes1000(ReplaceFirst(e.retryDelay, <<"s">>)))

\* what the else branch of the catch block throws
Rethrow(e) == e

\* attempt counted twice after the sleep
NextAttemptTwice(a) == a + 2

\* attempt++ after the sleep
NextAttempt(a) == a + 1

\* entry of callGenerativeAIWithRetry(p, model, r, d), up to its first await
callGenerativeAIWithRetry(p, r, d) ==
    /\ prompt' = p
    /\ retries' = r
    /\ initialDelay' = d
    /\ attempt' = 0
    /\ delay' = 0
    /\ sleeps' = 0
    /\ lastOutcome' = NoResult
    /\ IF 0 < r
       THEN /\ wpc' = "call"
            /\ calls' = 1
            /\ result' = NoResult
       ELSE /\ wpc' = "threw"
            /\ calls' = 0
            /\ result' = Threw(GenericError)

\* model.generateContent(prompt) resolves with response r: return response
GenerateContentOk(r) ==
    /\ wpc = "call"
    /\ wpc' = "returned"
    /\ result' = Returned(r)
    /\ lastOutcome' = Returned(r)
    /\ UNCHANGED <<variant, env, prompt, retries, initialDelay, attempt, delay, calls, sleeps>>
    /\ UNCHANGED <<pc, bookVars, caught, ghostVars>>

\* model.generateContent(prompt) rejects with e: the catch block
GenerateContentFail(e) ==
    /\ wpc = "call"
    /\ lastOutcome' = Threw(e)
    /\ IF ShouldRetry(variant, e, attempt, retries)
       THEN /\ delay' = BackoffDelay(variant, e, attempt, initialDelay)
            /\ wpc' = "sleep"
            /\ sleeps' = sleeps + 1
            /\ UNCHANGED result
       ELSE /\ wpc' = "threw"
            /\ result' = Threw(Rethrow(e))
            /\ UNCHANGED <<delay, sleeps>>
    /\ UNCHANGED <<variant, env, prompt, retries, initialDelay, attempt, calls>>
    /\ UNCHANGED <<pc, bookVars, caught, ghostVars>>

\* sleep(delay) resolves: attempt++, the while condition, the next call or
\* the throw after the loop
SleepDone ==
    /\ wpc = "sleep"
    /\ attempt' = NextAttempt(attempt)
    /\ IF attempt' < retries
       THEN /\ wpc' = "call"
            /\ calls' = calls + 1
            /\ UNCHANGED result
       ELSE /\ wpc' = "threw"
            /\ result' = Threw(GenericError)
            /\ UNCHANGED calls
    /\ delay' = 0
    /\ lastOutcome' = NoResult
    /\ UNCHANGED <<variant, env, prompt, retries, initialDelay, sleeps>>
    /\ UNCHANGED <<pc, bookVars, caught, ghostVars>>

(***************************************************************************)
(* The configuration: process.env and the three constants read from it.    *)
(* A variable of the environment is a string (a sequence of characters)    *)
(* or UNDEFINED when it is not set.                                        *)
(***************************************************************************)
\* parseInt(s, 10): leading white space, an optional sign, the longest run
\* of digits; NaN when there is no digit
ParseInt(s) ==
    IF s = UNDEFINED THEN [nan |-> TRUE, val |-> 0]
    ELSE LET lead == {i \in 1..Len(s) : ~IsWhitespace(s[i])}
             t    == IF lead = {} THEN Empty ELSE SubSeq(s, Min(lead), Len(s))
             sgn  == t # Empty /\ Head(t) \in {"-", "+"}
             u    == IF sgn THEN Tail(t) ELSE t
             n    == DigitPrefix(u)
             v    == DecimalValue(SubSeq(u, 1, n))
         IN  IF n = 0 THEN [nan |-> TRUE, val |-> 0]
             ELSE [nan |-> FALSE, val |-> IF sgn /\ Head(t) = "-" THEN 0 - v ELSE v]

\* a string used as a condition: undefined and "" are falsy
Falsy(s) == s = UNDEFINED \/ s = Empty

API_KEY == env.GEMINI_API_KEY
KEYWORDS == env.KEYWORDS
CHAPTER_COUNT == ParseInt(env.CHAPTER_COUNT)

\* if (!API_KEY || !KEYWORDS || isNaN(CHAPTER_COUNT))
ConfigMissing == Falsy(API_KEY) \/ Falsy(KEYWORDS) \/ CHAPTER_COUNT.nan

Env(k, w, c) == [GEMINI_API_KEY |-> k, KEYWORDS |-> w, CHAPTER_COUNT |-> c]
\* the configuration of a run that is not about the configuration
UsualEnv == Env(<<"k">>, <<"x">>, <<"3">>)
Envs ==
    {Env(k, w, c) :
        k \in {UNDEFINED, Empty, <<"k">>},
        w \in {UNDEFINED, Empty, <<"x">>},
        c \in {UNDEFINED, Empty, <<"a">>, <<"0">>, <<"-", "1">>, <<"3">>,
               <<"1", "2">>, <<"3", "a">>}}

(***************************************************************************)
(* The state before anything runs.                                         *)
(***************************************************************************)
InitLocals ==
    /\ wpc = "idle"
    /\ prompt = [kind |-> "none"]
    /\ retries = 0
    /\ initialDelay = 0
    /\ attempt = 0
    /\ delay = 0
    /\ result = NoResult
    /\ calls = 0
    /\ sleeps = 0
    /\ lastOutcome = NoResult
    /\ world = Empty
    /\ locations = Empty
    /\ characters = Empty
    /\ chapterOutline = Empty
    /\ summary = Empty
    /\ bookContent = Empty
    /\ currentChapter = 1
    /\ bookComplete = FALSE
    /\ paragraph_count = 0
    /\ previous_paragraph = Empty
    /\ isChapterEnd = FALSE
    /\ isBookEnd = FALSE
    /\ redisValue = UNDEFINED
    /\ caught = NoError
    /\ iterations = 0
    /\ chapterEnds = 0
    /\ writtenInChapter = 0

(***************************************************************************)
(* The wrapper on its own: one invocation with any retries in              *)
(* 0 .. MaxRetries and any initialDelay of InitialDelays.                  *)
(***************************************************************************)
InitialDelays == {250, 1000}

WrapperInit ==
    /\ variant \in Variants
    /\ env = UsualEnv
    /\ pc = "harness"
    /\ InitLocals

Invoke ==
    /\ pc = "harness"
    /\ wpc = "idle"
    /\ \E r \in 0..MaxRetries, d \in InitialDelays :
          callGenerativeAIWithRetry([kind |-> "harness"], r, d)
    /\ UNCHANGED <<variant, env, pc, bookVars, caught, ghostVars>>

WrapperNext ==
    \/ Invoke
    \/ \E r \in ResponsesFor(prompt.kind) : GenerateContentOk(r)
    \/ \E e \in ErrorsFor(prompt.kind) : GenerateContentFail(e)
    \/ SleepDone

WrapperSpec == WrapperInit /\ [][WrapperNext]_vars


(***************************************************************************)
(* writeBook (src/index.js) and writeBook / writeBookLogic (part_000).     *)
(* A prompt is the record of the values its template embeds.  One action   *)
(* is the code between two awaits.                                         *)
(***************************************************************************)
EmptyPage == <<"Empty page, begin writing your book!">>
NoPreviousAtStart == <<"No previous paragraphs.">>
NoPreviousAfterChapter == <<"No previous paragraphs">>
BlankLine == <<"\n", "\n">>

worldPrompt ==
    [kind |-> "world", keywords |-> KEYWORDS, chapterCount |-> CHAPTER_COUNT]
locationsPrompt == [kind |-> "locations", world |-> world]
charactersPrompt ==
    [kind |-> "characters", world |-> world, locations |-> locations]
outlinePrompt ==
    [kind |-> "outline", world |-> world, locations |-> locations,
     characters |-> characters, chapterCount |-> CHAPTER_COUNT]
paragraphPrompt ==
    IF variant = "index.js"
    THEN [kind |-> "paragraph", world |-> world, locations |-> locations,
          characters |-> characters, chapterOutline |-> chapterOutline,
          bookContent |-> bookContent, summary |-> summary]
    ELSE [kind |-> "paragraph", summary |-> summary,
          previous_paragraph |-> previous_paragraph, world |-> world,
          locations |-> locations, characters |-> characters,
          chapterOutline |-> chapterOutline, currentChapter |-> currentChapter,
          chapterCount |-> CHAPTER_COUNT, paragraph_count |-> paragraph_count]
\* summaryPrompt built from the running summary instead of the book
summaryPromptOfSummary == [kind |-> "summary", bookContent |-> summary]
summaryPrompt == [kind |-> "summary", bookContent |-> bookContent]

\* a call site: callGenerativeAIWithRetry(p, model) with the default arguments
Call(p) == callGenerativeAIWithRetry(p, DefaultRetries, DefaultInitialDelay)

Init ==
    /\ variant \in Variants
    /\ env = UsualEnv
    /\ pc = "start"
    /\ InitLocals

\* writeBook: the check of the configuration (an error message and return),
\* then the declarations of the locals and stage 1 up to its await
WriteBookStart ==
    /\ pc = "start"
    /\ IF ConfigMissing
       THEN /\ pc' = "rejected"
            /\ UNCHANGED <<summary, wrapperVars>>
       ELSE /\ summary' = IF variant = "index.js" THEN Empty ELSE EmptyPage
            /\ pc' = "world"
            /\ Call(worldPrompt)
    /\ UNCHANGED <<variant, env, world, locations, characters, chapterOutline,
                   bookContent, currentChapter, bookComplete, paragraph_count,
                   previous_paragraph, isChapterEnd, isBookEnd, redisValue,
                   caught, ghostVars>>

\* world = extractTextFromResponse(worldResponse); stage 2 up to its await
WorldDone ==
    /\ pc = "world" /\ wpc = "returned"
    /\ world' = extractTextFromResponse(variant, result.val)
    /\ UNCHANGED <<variant, env, locations, characters, chapterOutline, summary,
                   bookContent, currentChapter, bookComplete, paragraph_count,
                   previous_paragraph, isChapterEnd, isBookEnd, redisValue,
                   caught, ghostVars>>
    /\ pc' = "locations"
    /\ Call(locationsPrompt')

\* locations = extractTextFromResponse(locationsResponse); stage 3 up to its await
LocationsDone ==
    /\ pc = "locations" /\ wpc = "returned"
    /\ locations' = extractTextFromResponse(variant, result.val)
    /\ UNCHANGED <<variant, env, world, characters, chapterOutline, summary,
                   bookContent, currentChapter, bookComplete, paragraph_count,
                   previous_paragraph, isChapterEnd, isBookEnd, redisValue,
                   caught, ghostVars>>
    /\ pc' = "characters"
    /\ Call(charactersPrompt')

\* characters = extractTextFromResponse(charactersResponse); stage 4 up to its await
CharactersDone ==
    /\ pc = "characters" /\ wpc = "returned"
    /\ characters' = extractTextFromResponse(variant, result.val)
    /\ UNCHANGED <<variant, env, world, locations, chapterOutline, summary,
                   bookContent, currentChapter, bookComplete, paragraph_count,
                   previous_paragraph, isChapterEnd, isBookEnd, redisValue,
                   caught, ghostVars>>
    /\ pc' = "outline"
    /\ Call(outlinePrompt')

\* The head of the while loop, entered with the new values of the locals:
\* the next paragraph call, or the end of the loop.  The model asks the
\* remote service for at most MaxParagraphs paragraphs.
LoopHead ==
    IF bookComplete'
    THEN /\ pc' = "complete"
         /\ UNCHANGED wrapperVars
    ELSE /\ iterations < MaxParagraphs
         /\ pc' = "paragraph"
         /\ Call(paragraphPrompt')

\* chapterOutline = extractTextFromResponse(outlineResponse); the locals of
\* stage 5 and the first pass through the loop head
OutlineDone ==
    /\ pc = "outline" /\ wpc = "returned"
    /\ chapterOutline' = extractTextFromResponse(variant, result.val)
    /\ paragraph_count' = 0
    /\ previous_paragraph' =
          IF variant = "index.js" THEN previous_paragraph ELSE NoPreviousAtStart
    /\ UNCHANGED <<variant, env, world, locations, characters, summary,
                   bookContent, currentChapter, bookComplete,
                   isChapterEnd, isBookEnd, redisValue, caught, ghostVars>>
    /\ LoopHead

\* currentChapter++ outside its if
NextChapterAlways(ce, ch) == ch + 1

\* if (isChapterEnd) { ...; currentChapter++; }
NextChapter(ce, ch) == IF ce THEN ch + 1 ELSE ch

\* if (isChapterEnd) { ... }  if (isBookEnd) { ... }  and the summary call,
\* given the flags ce, be of the running iteration
Transitions(ce, be) ==
    /\ currentChapter' = NextChapter(ce, currentChapter)
    /\ bookComplete' = IF be THEN TRUE ELSE bookComplete
    /\ pc' = "summary"
    /\ Call(summaryPrompt')

\* const isChapterEnd = newParagraph.includes("END OF THE CHAPTER")
HasChapterEnd(text) == Includes(text, ChapterMarker)
\* const isBookEnd = newParagraph.includes("END OF THE BOOK")
HasBookEnd(text) == Includes(text, BookMarker)

\* The paragraph call returned: extract and trim, the two flags, the marker
\* clean-up, the append.  index.js then awaits redis.set; part_000 goes on
\* to the transitions and the summary call.  extractTextFromResponse(...)
\* being undefined, .trim() throws a TypeError into the catch block.
ParagraphDone ==
    /\ pc = "paragraph" /\ wpc = "returned"
    /\ LET ext == extractTextFromResponse(variant, result.val)
       IN  IF ext = UNDEFINED
           THEN /\ pc' = "aborted"
                /\ caught' = TypeError
                /\ UNCHANGED <<variant, env, wrapperVars, bookVars, ghostVars>>
           ELSE LET raw == Trim(ext)
                    ce == HasChapterEnd(raw)
                    be == HasBookEnd(raw)
                    newParagraph == CleanUp(raw)
                IN  /\ isChapterEnd' = ce
                    /\ isBookEnd' = be
                    /\ bookContent' = bookContent \o BlankLine \o newParagraph
                    /\ iterations' = iterations + 1
                    /\ chapterEnds' = IF ce THEN chapterEnds + 1 ELSE chapterEnds
                    /\ writtenInChapter' = IF ce THEN 0 ELSE writtenInChapter + 1
                    /\ UNCHANGED <<variant, env, world, locations, characters,
                                   chapterOutline, summary, redisValue, caught>>
                    /\ IF variant = "index.js"
                       THEN /\ pc' = "redis"
                            /\ UNCHANGED <<wrapperVars, currentChapter, bookComplete,
                                           paragraph_count, previous_paragraph>>
                       ELSE /\ paragraph_count' = IF ce THEN 0 ELSE paragraph_count
                            /\ previous_paragraph' =
                                  IF ce THEN NoPreviousAfterChapter ELSE newParagraph
                            /\ Transitions(ce, be)

\* RedisSet without the try / catch around redis.set: a rejection reaches
\* the catch block of the run
RedisSetRejectionAborts(ok) ==
    /\ pc = "redis"
    /\ IF ok
       THEN /\ redisValue' = bookContent
            /\ UNCHANGED caught
            /\ Transitions(isChapterEnd, isBookEnd)
       ELSE /\ pc' = "aborted"
            /\ caught' = [status |-> 0, retryDelay |-> Empty, message |-> "redis"]
            /\ UNCHANGED <<wrapperVars, redisValue, currentChapter, bookComplete>>
    /\ UNCHANGED <<variant, env, world, locations, characters, chapterOutline,
                   summary, bookContent, paragraph_count, previous_paragraph,
                   isChapterEnd, isBookEnd, ghostVars>>

\* index.js: await redis.set(redisKey, bookContent) resolved (ok) or rejected
\* (caught and logged); then the transitions and the summary call
RedisSet(ok) ==
    /\ pc = "redis"
    /\ redisValue' = IF ok THEN bookContent ELSE redisValue
    /\ UNCHANGED <<variant, env, world, locations, characters, chapterOutline,
                   summary, bookContent, paragraph_count, previous_paragraph,
                   isChapterEnd, isBookEnd, caught, ghostVars>>
    /\ Transitions(isChapterEnd, isBookEnd)

\* The summary call returned: summary = extract(...).trim().  index.js goes
\* back to the loop head; part_000 awaits sleep(20000) unless the book is
\* complete, and then does paragraph_count++ and goes to the loop head.
SummaryDone ==
    /\ pc = "summary" /\ wpc = "returned"
    /\ LET ext == extractTextFromResponse(variant, result.val)
       IN  IF ext = UNDEFINED
           THEN /\ pc' = "aborted"
                /\ caught' = TypeError
                /\ UNCHANGED <<variant, env, wrapperVars, bookVars, ghostVars>>
           ELSE /\ summary' = Trim(ext)
                /\ UNCHANGED <<variant, env, world, locations, characters,
                               chapterOutline, bookContent, currentChapter,
                               bookComplete, previous_paragraph, isChapterEnd,
                               isBookEnd, redisValue, caught, ghostVars>>
                /\ IF variant = "index.js"
                   THEN /\ UNCHANGED paragraph_count
                        /\ LoopHead
                   ELSE IF ~bookComplete
                        THEN /\ pc' = "pause"
                             /\ UNCHANGED <<wrapperVars, paragraph_count>>
                        ELSE /\ paragraph_count' = paragraph_count + 1
                             /\ LoopHead

\* part_000: sleep(20000) resolved; paragraph_count++; the loop head
PauseDone ==
    /\ pc = "pause"
    /\ paragraph_count' = paragraph_count + 1
    /\ UNCHANGED <<variant, env, world, locations, characters, chapterOutline,
                   summary, bookContent, currentChapter, bookComplete,
                   previous_paragraph, isChapterEnd, isBookEnd, redisValue,
                   caught, ghostVars>>
    /\ LoopHead

\* CatchError with a try / catch around stage 1 alone: a failed world call
\* is logged and the run goes on with stage 2
CatchErrorPerStage ==
    /\ pc \in {"world", "locations", "characters", "outline", "paragraph", "summary"}
    /\ wpc = "threw"
    /\ caught' = result.val
    /\ IF pc = "world"
       THEN /\ pc' = "locations"
            /\ UNCHANGED <<variant, env, bookVars, ghostVars>>
            /\ Call(locationsPrompt')
       ELSE /\ pc' = "aborted"
            /\ UNCHANGED <<variant, env, wrapperVars, bookVars, ghostVars>>

\* callGenerativeAIWithRetry threw: the catch block of the try around the
\* five stages logs the error and the run ends
CatchError ==
    /\ pc \in {"world", "locations", "characters", "outline", "paragraph", "summary"}
    /\ wpc = "threw"
    /\ pc' = "aborted"
    /\ caught' = result.val
    /\ UNCHANGED <<variant, env, wrapperVars, bookVars, ghostVars>>

Next ==
    \/ WriteBookStart
    \/ WorldDone
    \/ LocationsDone
    \/ CharactersDone
    \/ OutlineDone
    \/ ParagraphDone
    \/ \E ok \in BOOLEAN : RedisSet(ok)
    \/ SummaryDone
    \/ PauseDone
    \/ CatchError
    \/ \E r \in ResponsesFor(prompt.kind) : GenerateContentOk(r)
    \/ \E e \in ErrorsFor(prompt.kind) : GenerateContentFail(e)
    \/ SleepDone

Spec == Init /\ [][Next]_vars

\* the shape the running script reads
ShapeRead(v) == IF v = "index.js" THEN "candidates" ELSE "response.candidates"

(***************************************************************************)
(* The stage-5 loop on its own, from the first paragraph call on, under a  *)
(* fair scheduler: a pending promise (the remote call, a sleep, redis.set) *)
(* settles and the continuation after an await runs.                       *)
(***************************************************************************)
LoopInit ==
    /\ variant \in Variants
    /\ env = UsualEnv
    /\ pc = "paragraph"
    /\ wpc = "call"
    /\ retries = DefaultRetries
    /\ initialDelay = DefaultInitialDelay
    /\ attempt = 0
    /\ delay = 0
    /\ calls = 1
    /\ sleeps = 0
    /\ result = NoResult
    /\ lastOutcome = NoResult
    /\ world = extractTextFromResponse(variant, Response(ShapeRead(variant), <<"x">>))
    /\ locations = world
    /\ characters = world
    /\ chapterOutline = world
    /\ summary = IF variant = "index.js" THEN Empty ELSE EmptyPage
    /\ bookContent = Empty
    /\ currentChapter = 1
    /\ bookComplete = FALSE
    /\ paragraph_count = 0
    /\ previous_paragraph = IF variant = "index.js" THEN Empty ELSE NoPreviousAtStart
    /\ isChapterEnd = FALSE
    /\ isBookEnd = FALSE
    /\ redisValue = UNDEFINED
    /\ caught = NoError
    /\ iterations = 0
    /\ chapterEnds = 0
    /\ writtenInChapter = 0
    /\ prompt = paragraphPrompt

LoopNext ==
    \/ ParagraphDone
    \/ \E ok \in BOOLEAN : RedisSet(ok)
    \/ SummaryDone
    \/ PauseDone
    \/ CatchError
    \/ \E r \in ResponsesFor(prompt.kind) : GenerateContentOk(r)
    \/ \E e \in ErrorsFor(prompt.kind) : GenerateContentFail(e)
    \/ SleepDone

\* the continuation after the awaited paragraph call: under LoopNext a step
\* from there to another position is a ParagraphDone step
ParagraphContinues ==
    /\ pc = "paragraph" /\ wpc = "returned"
    /\ pc' \in {"redis", "summary", "aborted"}

\* the promise of model.generateContent settles
GenerateContentSettles ==
    \/ \E r \in ResponsesFor(prompt.kind) : GenerateContentOk(r)
    \/ \E e \in ErrorsFor(prompt.kind) : GenerateContentFail(e)

LoopFairness ==
    /\ WF_pc(ParagraphContinues)
    /\ WF_vars(\E ok \in BOOLEAN : RedisSet(ok))
    /\ WF_vars(SummaryDone)
    /\ WF_vars(PauseDone)
    /\ WF_vars(CatchError)
    /\ WF_vars(GenerateContentSettles)
    /\ WF_vars(SleepDone)

LoopSpec == LoopInit /\ [][LoopNext]_vars /\ LoopFairness


(***************************************************************************)
(* The configuration check on its own: writeBook up to the end of stage 1, *)
(* for every configuration of Envs.                                        *)
(***************************************************************************)
ConfigInit ==
    /\ variant \in Variants
    /\ env \in Envs
    /\ pc = "start"
    /\ InitLocals

ConfigNext ==
    \/ WriteBookStart
    \/ \E r \in ResponsesFor(prompt.kind) : GenerateContentOk(r)
    \/ \E e \in ErrorsFor(prompt.kind) : GenerateContentFail(e)
    \/ SleepDone
    \/ CatchError

ConfigSpec == ConfigInit /\ [][ConfigNext]_vars

(***************************************************************************)
(* The marker clean-up on its own: the loop at the moment a paragraph call *)
(* has returned, for every text of at most MaxLen tokens.                  *)
(***************************************************************************)
Alphabet == {EOT, "CHAPTER", "BOOK", " ", "x"}
BoundedTexts == UNION {[1..n -> Alphabet] : n \in 0..MaxLen}

CleanupInit ==
    /\ variant \in Variants
    /\ env = UsualEnv
    /\ pc = "paragraph"
    /\ wpc = "returned"
    /\ retries = DefaultRetries
    /\ initialDelay = DefaultInitialDelay
    /\ attempt = 0
    /\ delay = 0
    /\ calls = 1
    /\ sleeps = 0
    /\ \E t \in BoundedTexts :
          /\ result = Returned(Response(ShapeRead(variant), t))
          /\ lastOutcome = result
    /\ world = extractTextFromResponse(variant, Response(ShapeRead(variant), <<"x">>))
    /\ locations = world
    /\ characters = world
    /\ chapterOutline = world
    /\ summary = IF variant = "index.js" THEN Empty ELSE EmptyPage
    /\ bookContent = Empty
    /\ currentChapter = 1
    /\ bookComplete = FALSE
    /\ paragraph_count = 0
    /\ previous_paragraph = IF variant = "index.js" THEN Empty ELSE NoPreviousAtStart
    /\ isChapterEnd = FALSE
    /\ isBookEnd = FALSE
    /\ redisValue = UNDEFINED
    /\ caught = NoError
    /\ iterations = 0
    /\ chapterEnds = 0
    /\ writtenInChapter = 0
    /\ prompt = paragraphPrompt

CleanupNext ==
    \/ ParagraphDone
    \/ \E ok \in BOOLEAN : RedisSet(ok)

CleanupSpec == CleanupInit /\ [][CleanupNext]_vars

(***************************************************************************)
(* Properties.                                                             *)
(***************************************************************************)

\* C1: for retries >= 1 an invocation never makes more than retries calls
\* to model.generateContent (calls counts them, and an invocation that has
\* thrown makes no further call); an invocation that throws throws the
\* failure of its last call; and when that failure is a retryable one
\* (status 429 or 503) it was thrown after exactly retries calls.
C1_ExhaustionAfterRetriesCalls ==
    retries >= 1 =>
        /\ calls <= retries
        /\ wpc = "threw" => result = lastOutcome /\ result.kind = "error"
        /\ (wpc = "threw" /\ lastOutcome.val.status \in {429, 503}) => calls = retries

\* C1 witness: retries = 3, three calls all failed with 429, the third is thrown
C1_Witness ==
    /\ wpc = "threw" /\ retries = 3 /\ calls = 3 /\ sleeps = 2
    /\ result.val.status = 429

\* the server's retryDelay string in milliseconds
ServerDelayMs(e) == ParseFloatTimes1000(ReplaceFirst(e.retryDelay, <<"s">>))

\* C3: the delay slept after the k-th failed attempt is initialDelay * 2^k
\* when the error carries no server-suggested delay, the larger of that and
\* the server-suggested delay when it carries one, and never shorter than
\* initialDelay * 2^k.
C3_DelayIsBackoffOrServerDelay ==
    wpc = "sleep" =>
        LET e == lastOutcome.val
            backoff == initialDelay * Pow2(attempt)
        IN  /\ delay >= backoff
            /\ delay = IF e.retryDelay = Empty THEN backoff
                       ELSE Max(backoff, ServerDelayMs(e))

\* C4: an invocation that returns has made one call more than it slept,
\* attempt + 1 calls in all, and returns the response of its last call;
\* calls and sleeps alternate (a pending sleep follows a failed call, a
\* pending call follows the sleep); a 429 is never thrown while attempts remain.
C4_RetryThenSuccess ==
    /\ wpc = "returned" =>
          /\ calls = attempt + 1 /\ sleeps = attempt /\ attempt < retries
          /\ result = lastOutcome /\ result.kind = "response"
    /\ wpc = "sleep" => sleeps = calls /\ sleeps = attempt + 1 /\ lastOutcome.kind = "error"
    /\ wpc = "call" => calls = sleeps + 1 /\ calls = attempt + 1
    /\ (wpc = "threw" /\ lastOutcome.val.status = 429) => calls = retries

\* C4 witness: retries = 3, two failures and two sleeps, the third call returned
C4_Witness ==
    /\ wpc = "returned" /\ retries = 3 /\ calls = 3 /\ sleeps = 2 /\ attempt = 2
    /\ result.kind = "response"

\* C5: an error with status 429 or 5xx is thrown to the caller only when no
\* attempt remains.
C5_RateLimitAndServerErrorsRetried ==
    (wpc = "threw" /\ lastOutcome.kind = "error"
        /\ lastOutcome.val.status \in {429, 500, 502, 503, 504})
    => attempt >= retries - 1

\* a value stored by the controller that is an empty or absent text
IsEmptyText(t) == t = Empty \/ t = UNDEFINED

\* positions of the run after each stage has stored its text
AfterWorld ==
    {"locations", "characters", "outline", "paragraph", "redis", "summary",
     "pause", "complete"}
AfterLocations == AfterWorld \ {"locations"}
AfterCharacters == AfterLocations \ {"characters"}
AfterOutline == AfterCharacters \ {"outline"}

\* bookContent holds an empty appended paragraph: a blank line followed by
\* nothing or by the next blank line
HasEmptyParagraph(bc) ==
    \/ Includes(bc, <<"\n", "\n", "\n">>)
    \/ (bc # Empty /\ bc[Len(bc)] = "\n")

\* C2: a response whose extracted text is empty or absent is not returned
\* as a success while attempts remain, and no empty extracted text is
\* stored as world, locations, characters, chapterOutline or summary, or
\* appended as a paragraph.
C2_EmptyTextIsRetried ==
    /\ (wpc = "returned" /\ attempt < retries - 1)
          => ~IsEmptyText(extractTextFromResponse(variant, result.val))
    /\ pc \in AfterWorld => ~IsEmptyText(world)
    /\ pc \in AfterLocations => ~IsEmptyText(locations)
    /\ pc \in AfterCharacters => ~IsEmptyText(characters)
    /\ pc \in AfterOutline => ~IsEmptyText(chapterOutline)
    /\ (iterations >= 1 /\ pc \in {"paragraph", "pause", "complete"})
          => ~IsEmptyText(summary)
    /\ ~HasEmptyParagraph(bookContent)

\* a step that issues a model.generateContent call
CallIssued == wpc' = "call" /\ wpc # "call"

\* C6: the iteration that received a paragraph containing "END OF THE BOOK"
\* sets bookComplete before it goes on, and no step issues a remote call
\* (paragraph or summary) with bookComplete true.
C6_NoCallOnceBookComplete ==
    [][ /\ (isBookEnd' /\ pc' = "summary") => bookComplete'
        /\ bookComplete' => ~CallIssued ]_vars

\* C7: a run that was aborted because an invocation of the wrapper failed
\* after all its attempts ends with bookComplete false (and an aborted run
\* issues no remote call: its wrapper stays where it threw).
C7_AbortedRunIsNotComplete ==
    (pc = "aborted" /\ wpc = "threw" /\ calls = retries)
    => ~bookComplete

\* the cleaned paragraph the step appended to bookContent
Appended == SubSeq(bookContent', Len(bookContent) + Len(BlankLine) + 1, Len(bookContent'))

\* the clean-up with "END OF THE BOOK" removed first
CleanUpBookFirst(s) == Trim(ReplaceFirst(ReplaceFirst(s, BookMarker), ChapterMarker))

\* C8: the cleaned paragraph contains neither marker, is the same whichever
\* marker is removed first, and is left unchanged by a second clean-up.
C8_CleanUpRemovesMarkers ==
    [][ (pc = "paragraph" /\ pc' \in {"redis", "summary"}) =>
          LET raw == Trim(extractTextFromResponse(variant, result.val))
          IN  /\ ~Includes(Appended, ChapterMarker)
              /\ ~Includes(Appended, BookMarker)
              /\ Appended = CleanUpBookFirst(raw)
              /\ CleanUp(Appended) = Appended ]_vars

\* C9: currentChapter is 1 plus the number of paragraphs received so far
\* that contained "END OF THE CHAPTER" (in index.js once the pending
\* redis.set of the iteration has settled), so it grows by exactly 1 with
\* such a paragraph and not at all with any other.
C9_ChapterCountsChapterEnds ==
    /\ pc # "redis" => currentChapter = 1 + chapterEnds
    /\ pc = "redis" => currentChapter = 1 + chapterEnds - (IF isChapterEnd THEN 1 ELSE 0)

\* C9 witness: two paragraphs received, one of them with the chapter-end
\* marker, the chapter counter at 2
C9_Witness ==
    /\ iterations = 2 /\ chapterEnds = 1 /\ currentChapter = 2 /\ pc = "summary"

\* C10: in writeBookLogic, at the start of every iteration (the paragraph
\* call is pending) paragraph_count, as embedded in the prompt, is the
\* number of paragraphs written in the current chapter: 0 in the first
\* iteration and in every iteration that follows a chapter-end paragraph.
C10_ParagraphCountIsWrittenInChapter ==
    (variant = "part_000" /\ pc = "paragraph" /\ wpc = "call")
    => /\ paragraph_count = writtenInChapter
       /\ prompt.paragraph_count = writtenInChapter

\* the configuration the specification asks for: apiKey and keywords
\* non-empty, chapterCount a positive integer
IsPositiveInteger(c) ==
    /\ c # UNDEFINED /\ c # Empty
    /\ \A i \in 1..Len(c) : IsDigit(c[i])
    /\ DecimalValue(c) > 0
ConfigValid ==
    /\ ~Falsy(env.GEMINI_API_KEY)
    /\ ~Falsy(env.KEYWORDS)
    /\ IsPositiveInteger(env.CHAPTER_COUNT)

\* C11: with a missing or invalid configuration (apiKey or keywords absent
\* or empty, chapterCount absent, non-numeric, zero or negative) writeBook
\* reports the failure and makes no remote call.
C11_InvalidConfigMakesNoCall ==
    ~ConfigValid => (pc \in {"start", "rejected"} /\ wpc = "idle" /\ calls = 0)

\* positions of the run inside the stage-5 loop
InLoop == {"paragraph", "redis", "summary", "pause"}

\* C12: while the loop runs (from the first paragraph call on) world,
\* locations, characters and chapterOutline are all non-empty, and they
\* were stored in that order: a stage's text is still empty while an
\* earlier stage has not completed.
C12_SetupTextsNonEmptyBeforeLoop ==
    /\ pc \in InLoop =>
          /\ ~IsEmptyText(world) /\ ~IsEmptyText(locations)
          /\ ~IsEmptyText(characters) /\ ~IsEmptyText(chapterOutline)
    /\ pc \in {"start", "world"} => locations = Empty
    /\ pc \in {"start", "world", "locations"} => characters = Empty
    /\ pc \in {"start", "world", "locations", "characters"} => chapterOutline = Empty

\* C13: in index.js redis.set is called once per received paragraph, and
\* the step that follows it is the same whether it resolved or rejected:
\* bookContent and summary unchanged, the transitions of the iteration
\* taken from its two flags, the summary call issued, nothing caught.
C13_RedisFailureChangesNothing ==
    [][ /\ (pc' = "redis" /\ pc # "redis")
            => (pc = "paragraph" /\ iterations' = iterations + 1)
        /\ pc = "redis" =>
            /\ bookContent' = bookContent
            /\ summary' = summary
            /\ currentChapter' = currentChapter + (IF isChapterEnd THEN 1 ELSE 0)
            /\ bookComplete' = (bookComplete \/ isBookEnd)
            /\ pc' = "summary"
            /\ wpc' = "call"
            /\ prompt' = [kind |-> "summary", bookContent |-> bookContent]
            /\ caught' = caught ]_vars

\* C13 witness: two paragraphs received, both redis.set calls rejected, the
\* second summary call issued
C13_Witness ==
    /\ variant = "index.js" /\ iterations = 2 /\ redisValue = UNDEFINED
    /\ pc = "summary" /\ wpc = "call"

\* C14: the step that takes the transitions of an iteration whose paragraph
\* contained "END OF THE BOOK" sets bookComplete and leaves currentChapter
\* alone; currentChapter changes only when the book-end marker was absent.
C14_BookEndIsTheOnlyTransition ==
    [][ (pc \in {"paragraph", "redis"} /\ pc' = "summary") =>
          /\ isBookEnd' => (bookComplete' /\ currentChapter' = currentChapter)
          /\ currentChapter' # currentChapter => ~isBookEnd' ]_vars

IsPrefix(a, b) == Len(a) <= Len(b) /\ SubSeq(b, 1, Len(a)) = a

\* C15: every step leaves the old bookContent a prefix of the new one; a
\* paragraph call that returned appends one blank line and the cleaned
\* paragraph; no other step (a failed invocation, a failed redis.set)
\* changes bookContent.
C15_BookContentAppendOnly ==
    [][ /\ IsPrefix(bookContent, bookContent')
        /\ IF pc = "paragraph" /\ wpc = "returned"
           THEN bookContent' = bookContent \o BlankLine
                    \o CleanUp(Trim(extractTextFromResponse(variant, result.val)))
           ELSE bookContent' = bookContent ]_vars

\* a step that starts a wrapper invocation: the wrapper was not running
Invoked == wpc \in {"idle", "returned"} /\ wpc' \in {"call", "threw"}

\* C16: inside the loop the wrapper invocations alternate, paragraph call
\* then summary call, and one starts only when the one before has returned;
\* the summary prompt holds the bookContent that the paragraph of the
\* iteration was just appended to; summary changes only to the trimmed text
\* that a summary call returned, and the paragraph prompt of the next
\* iteration holds that summary.
C16_ParagraphThenSummary ==
    [][ /\ prompt' # prompt => Invoked
        /\ (Invoked /\ prompt'.kind = "summary") =>
              /\ prompt.kind = "paragraph"
              /\ prompt' = [kind |-> "summary", bookContent |-> bookContent']
              /\ iterations' >= 1
              /\ \E i \in 1..Len(bookContent') :
                    /\ SubSeq(bookContent', i, i + 1) = BlankLine
                    /\ SubSeq(bookContent', i + 2, Len(bookContent'))
                          = CleanUp(Trim(extractTextFromResponse(variant, result.val)))
        /\ (Invoked /\ prompt'.kind = "paragraph") =>
              /\ prompt.kind \in {"outline", "summary"}
              /\ prompt'.summary = summary'
        /\ (summary' # summary /\ pc # "start") =>
              /\ pc = "summary" /\ wpc = "returned"
              /\ summary' = Trim(extractTextFromResponse(variant, result.val)) ]_vars

\* C16 witness: the paragraph call of the second iteration is issued with
\* the summary that the summary call of the first iteration returned
C16_Witness ==
    /\ pc = "paragraph" /\ wpc = "call" /\ iterations = 1
    /\ prompt.summary = <<"x">> /\ summary = <<"x">>

SetupStages == <<"world", "locations", "characters", "outline">>

\* the fields stored by the setup stages n, n + 1, ... are still empty
EmptyFrom(n) ==
    /\ n <= 1 => world = Empty
    /\ n <= 2 => locations = Empty
    /\ n <= 3 => characters = Empty
    /\ n <= 4 => chapterOutline = Empty

\* C17: when the wrapper invocation of setup stage n has thrown, the run is
\* at that stage or aborted, the fields of stage n and of the later stages
\* are empty, no paragraph was received and bookContent is empty; from then
\* on the only step is the one to the aborted state, which starts no
\* invocation and changes no field.
C17_SetupFailureIsFatal ==
    [][ /\ \A n \in 1..4 :
              (wpc' = "threw" /\ prompt'.kind = SetupStages[n]) =>
                  /\ pc' \in {SetupStages[n], "aborted"}
                  /\ EmptyFrom(n)'
                  /\ iterations' = 0 /\ bookContent' = Empty
                  /\ ~bookComplete'
        /\ wpc = "threw" =>
              /\ pc' = "aborted" /\ caught' = result.val
              /\ UNCHANGED <<wrapperVars, bookVars, ghostVars>> ]_vars

\* C17 witness: the characters call threw and the run was aborted by it
C17_Witness ==
    /\ pc = "aborted" /\ wpc = "threw" /\ prompt.kind = "characters"
    /\ caught = result.val /\ chapterOutline = Empty

\* C18: a received paragraph with the book-end marker (bookComplete set)
\* leads to the COMPLETE state unless a wrapper invocation throws.
C18_BookEndLeadsToComplete ==
    bookComplete ~> (pc = "complete" \/ wpc = "threw")

\* the loop ends normally only with bookComplete set by the paragraph of
\* the last iteration and no error caught
CompleteOnlyAfterBookEnd ==
    pc = "complete" => (bookComplete /\ isBookEnd /\ caught = NoError)

\* C19: in writeBookLogic (part_000) the step after a paragraph call whose
\* paragraph is empty once the markers are stripped leaves bookContent and
\* previous_paragraph unchanged.
C19_EmptyParagraphIsSkipped ==
    [][ ( /\ variant = "part_000"
          /\ pc = "paragraph" /\ wpc = "returned"
          /\ extractTextFromResponse(variant, result.val) # UNDEFINED
          /\ CleanUp(Trim(extractTextFromResponse(variant, result.val))) = Empty )
        => ( /\ bookContent' = bookContent
             /\ previous_paragraph' = previous_paragraph ) ]_vars

\* C20: the throw after the while loop is reached only by an invocation
\* with retries <= 0, which makes no remote call; an invocation with
\* retries >= 1 makes at least one call, sleeps at most retries - 1 times,
\* and when it throws it is not sleeping and throws the error of its last
\* call.
C20_ThrowAfterLoopOnlyWithoutRetries ==
    /\ result = Threw(GenericError) => (retries <= 0 /\ calls = 0 /\ sleeps = 0)
    /\ (pc = "harness" /\ wpc # "idle" /\ retries <= 0)
          => (wpc = "threw" /\ result = Threw(GenericError) /\ calls = 0)
    /\ (wpc # "idle" /\ retries >= 1) =>
          /\ sleeps <= retries - 1
          /\ calls >= 1
          /\ calls <= retries
          /\ wpc = "threw" => (result = Threw(lastOutcome.val) /\ sleeps = calls - 1)

\* C20 witness: an invocation with retries = 3 has thrown after three calls
\* and two sleeps
C20_Witness ==
    /\ pc = "harness" /\ wpc = "threw" /\ retries = 3
    /\ calls = 3 /\ sleeps = 2 /\ result # Threw(GenericError)

=============================================================================
